---------------------------- MODULE Spec2Model ----------------------------
(***************************************************************************)
(* A model of src/src/vae/vae_wireframe.py: the wireframe VAE              *)
(* (Encoder1D, Decoder1D, AutoencoderKLWireframe and its fast-encode and   *)
(* fast-decode variants).                                                  *)
(*                                                                         *)
(* Tensors are modelled at two levels.  Where only the axis sizes decide   *)
(* the behaviour (encode, decode, the prediction heads) a tensor is its    *)
(* shape, a sequence of naturals, and every layer is the function on       *)
(* shapes that torch computes, failing where torch raises.  Where values   *)
(* decide it (the loss) a tensor is a nested sequence of integers.         *)
(*                                                                         *)
(* A state is one constructed model (cfg and the objects built from it)    *)
(* together with the record of the last call made on it.                   *)
(***************************************************************************)
EXTENDS Integers, Sequences, FiniteSets, TLC

VARIABLES cfg, params, ae, fe, fd, ret

vars == <<cfg, params, ae, fe, fd, ret>>

---------------------------------------------------------------------------
(* Bounds of the model *)

MaxBatch == 2

MaxCurves == 3

(* Constants of the program *)

NumSegments == 6

CurveLatentChannels == 12

CoorEmbedDim == 128

ColDiffEmbedDim == 16

RowDiffEmbedDim == 32

EncoderDefaultMaxColDiff == 6

EncoderDefaultMaxRowDiff == 32

DecoderDefaultWireframeLatentNum == 64

FastEncodeCurveLatentEmbedDim == 128

CurveLatentEmbedDim == 256

ConfigLatentChannels == 4

ConfigAttnDim == 8

(* The configurations a model is built from.  The loss weights are in     *)
(* ten-thousandths (the defaults 1. and 2e-4).                             *)
(* (max_col_diff, max_row_diff) pairs a model is configured with: the      *)
(* defaults, a smaller pair, and a pair with the defaults' sum and more    *)
(* columns                                                                 *)
OffsetConfigs == { <<6, 32>>, <<4, 8>>, <<8, 30>> }

WireframeLatentNums == { 2, 64 }

Configs ==
    { [ latent_channels        |-> ConfigLatentChannels,
        max_col_diff           |-> o[1],
        max_row_diff           |-> o[2],
        attn_dim               |-> ConfigAttnDim,
        max_curves_num         |-> m,
        wireframe_latent_num   |-> w,
        curve_latent_embed_dim |-> CurveLatentEmbedDim,
        use_mlp_predict        |-> u,
        use_focal_loss         |-> FALSE,
        use_latent_pos_emb     |-> p,
        cls_loss_weight          |-> 10000,
        segment_loss_weight      |-> 10000,
        col_diff_loss_weight     |-> 10000,
        row_diff_loss_weight     |-> 10000,
        curve_latent_loss_weight |-> 10000,
        kl_loss_weight           |-> 2 ] :
      o \in OffsetConfigs, m \in 1..MaxCurves, w \in WireframeLatentNums,
      u \in BOOLEAN, p \in BOOLEAN }

---------------------------------------------------------------------------
(* Shapes and the outcome of a tensor operation *)

Ok(s) == [ok |-> TRUE, shape |-> s, at |-> "none"]

Fail(stage) == [ok |-> FALSE, shape |-> << >>, at |-> stage]

Min(a, b) == IF a <= b THEN a ELSE b

Max(a, b) == IF a >= b THEN a ELSE b

Last(s) == s[Len(s)]

Front(s) == SubSeq(s, 1, Len(s) - 1)

(* x[..., lo:hi] on the last axis, hi clipped to the axis size as torch does *)
SliceLast(s, lo, hi) == Front(s) \o << Max(0, Min(hi, Last(s)) - Min(lo, Last(s))) >>

(* x[..., lo:] *)
SliceLastFrom(s, lo) == Front(s) \o << Max(0, Last(s) - lo) >>

(* torch broadcasting of two shapes, aligned at the trailing axis *)
BroadcastDim(a, b) == IF a = b THEN a ELSE IF a = 1 THEN b ELSE IF b = 1 THEN a ELSE -1

PadLeft(s, n) == [i \in 1..n |-> IF i <= n - Len(s) THEN 1 ELSE s[i - (n - Len(s))]]

Broadcast(s, t, stage) ==
    LET n == Max(Len(s), Len(t))
        ps == PadLeft(s, n)
        pt == PadLeft(t, n)
        r == [i \in 1..n |-> BroadcastDim(ps[i], pt[i])]
    IN IF \E i \in 1..n : r[i] = -1 THEN Fail(stage) ELSE Ok(r)

(* nn.Linear(in_features, out_features) applied on the last axis *)
Linear(layer, s, stage) ==
    IF Len(s) >= 1 /\ Last(s) = layer.in_features
    THEN Ok(Front(s) \o << layer.out_features >>)
    ELSE Fail(stage)

(* nn.Embedding(num_embeddings, dim) applied to an index tensor of shape s *)
(* whose entries are the set idx: an index outside the table raises        *)
Embedding(table, s, idx, stage) ==
    IF idx \subseteq 0..(table.num_embeddings - 1)
    THEN Ok(s \o << table.embedding_dim >>)
    ELSE Fail(stage)

(* PointEmbed(dim) of src.vae.modules: embeds 3-d points to dim channels *)
PointEmbed(layer, s, stage) ==
    IF Len(s) >= 1 /\ Last(s) = 3 THEN Ok(Front(s) \o << layer.dim >>) ELSE Fail(stage)

(* A cross attention stack of src.vae.modules (x-transformers): queries x  *)
(* (b, n, d) attend to context (b, m, d) under a mask (b, m) that is       *)
(* broadcast against the attention scores; the output has the shape of x   *)
CrossAttn(x, context, mask, stage) ==
    IF /\ Len(x) = 3 /\ Len(context) = 3
       /\ x[1] = context[1] /\ x[3] = context[3]
       /\ (mask = << >> \/ (/\ Len(mask) = 2
                             /\ mask[1] = context[1]
                             /\ mask[2] \in {context[2], 1}))
    THEN Ok(x)
    ELSE Fail(stage)

(* A self attention stack of src.vae.modules: keeps the shape *)
SelfAttn(x, stage) == IF Len(x) = 3 THEN Ok(x) ELSE Fail(stage)

(* MLP(in_dim, out_dim) of src.vae.modules, applied on the last axis *)
MLP(layer, s, stage) ==
    IF Len(s) >= 1 /\ Last(s) = layer.in_dim
    THEN Ok(Front(s) \o << layer.out_dim >>)
    ELSE Fail(stage)

---------------------------------------------------------------------------
(* Floating point scalars.  A float is finite, infinite or NaN; a finite   *)
(* value v stands for v / 1000.  Results beyond FltMax round to infinity   *)
(* and the operations follow IEEE 754 on the non-finite values.            *)

FltMax == 2000000


Fin(v) == [k |-> "fin", v |-> v]

Inf(sign) == [k |-> "inf", v |-> sign]

NaN == [k |-> "nan", v |-> 0]

Abs(x) == IF x < 0 THEN -x ELSE x

Sign(x) == IF x < 0 THEN -1 ELSE 1

Round(v) == IF Abs(v) > FltMax THEN Inf(Sign(v)) ELSE Fin(v)

FNeg(a) == IF a.k = "nan" THEN NaN ELSE [k |-> a.k, v |-> -a.v]

FAdd(a, b) ==
    IF a.k = "nan" \/ b.k = "nan" THEN NaN
    ELSE IF a.k = "inf" /\ b.k = "inf" THEN (IF a.v = b.v THEN a ELSE NaN)
    ELSE IF a.k = "inf" THEN a
    ELSE IF b.k = "inf" THEN b
    ELSE Round(a.v + b.v)

FSub(a, b) == FAdd(a, FNeg(b))

FMul(a, b) ==
    IF a.k = "nan" \/ b.k = "nan" THEN NaN
    ELSE IF a.k = "inf" \/ b.k = "inf"
         THEN (IF a.v = 0 \/ b.v = 0 THEN NaN ELSE Inf(Sign(a.v) * Sign(b.v)))
    ELSE IF a.v = 0 \/ b.v = 0 THEN Fin(0)
    ELSE IF Abs(b.v) > (FltMax * 1000) \div Abs(a.v) THEN Inf(Sign(a.v) * Sign(b.v))
    ELSE Round(Sign(a.v) * Sign(b.v) * ((Abs(a.v) * Abs(b.v)) \div 1000))

(* tensor.mean() of count elements that sum to sum thousandths: NaN over   *)
(* no element                                                              *)
Mean(sum, count) == IF count = 0 THEN NaN ELSE Round(sum \div count)

RECURSIVE SumTo(_, _)
(* f[1] + ... + f[n] *)
SumTo(f, n) == IF n = 0 THEN 0 ELSE f[n] + SumTo(f, n - 1)

Sum(f) == SumTo(f, Len(f))

RECURSIVE MaxTo(_, _)
(* the largest of f[1], ..., f[n], n >= 1 *)
MaxTo(f, n) == IF n = 1 THEN f[1] ELSE Max(f[n], MaxTo(f, n - 1))

(* torch.clamp(x, lo, hi) *)
Clamp(x, lo, hi) == IF x < lo THEN lo ELSE IF x > hi THEN hi ELSE x

(* torch.linspace(lo, hi, steps)[i], i from 0, in thousandths *)
Linspace(lo, hi, steps, i) ==
    IF steps = 1 THEN lo ELSE lo + (i * (hi - lo)) \div (steps - 1)

(* torch.exp in thousandths, for |x| <= 1000: the Taylor series to x^10 *)
ExpTerm(prev, x, k) == (prev * x) \div (1000 * k)

Exp(x) ==
    LET t1 == ExpTerm(1000, x, 1)
        t2 == ExpTerm(t1, x, 2)
        t3 == ExpTerm(t2, x, 3)
        t4 == ExpTerm(t3, x, 4)
        t5 == ExpTerm(t4, x, 5)
        t6 == ExpTerm(t5, x, 6)
        t7 == ExpTerm(t6, x, 7)
        t8 == ExpTerm(t7, x, 8)
    IN 1000 + t1 + t2 + t3 + t4 + t5 + t6 + t7 + t8

(* torch.log in thousandths, for x >= 1000: 2 atanh((x - 1) / (x + 1)) as  *)
(* its series to the 13th power, computed in millionths                    *)
Log(x) ==
    LET z == 10 * (((x - 1000) * 100000) \div (x + 1000))
        z2 == ((z \div 1000) * (z \div 1000))
        p3 == ((z \div 1000) * (z2 \div 1000))
        p5 == ((p3 \div 1000) * (z2 \div 1000))
        p7 == ((p5 \div 1000) * (z2 \div 1000))
        p9 == ((p7 \div 1000) * (z2 \div 1000))
        p11 == ((p9 \div 1000) * (z2 \div 1000))
        p13 == ((p11 \div 1000) * (z2 \div 1000))
    IN (2 * (z + p3 \div 3 + p5 \div 5 + p7 \div 7 + p9 \div 9 + p11 \div 11 + p13 \div 13)
        + 500) \div 1000

---------------------------------------------------------------------------
(* Encoder1D *)

EmbeddingLayerFactory_create_embeddings(point_embed_dim, max_col_diff, col_diff_embed_dim, max_row_diff, row_diff_embed_dim) ==
    [ point_embed    |-> [dim |-> point_embed_dim],
      col_diff_embed |-> [num_embeddings |-> max_col_diff, embedding_dim |-> col_diff_embed_dim],
      row_diff_embed |-> [num_embeddings |-> max_row_diff, embedding_dim |-> row_diff_embed_dim] ]

(* Encoder1D.__init__ (double_z = True, the other sizes at their defaults) *)
Encoder1D_init(out_channels, max_col_diff, max_row_diff, attn_dim, max_curves_num, wireframe_latent_num, curve_latent_embed_dim) ==
    LET emb == EmbeddingLayerFactory_create_embeddings(
                   CoorEmbedDim * 3, max_col_diff, ColDiffEmbedDim,
                   max_row_diff, RowDiffEmbedDim)
        init_dim == CoorEmbedDim * 6 + ColDiffEmbedDim + RowDiffEmbedDim
                        + curve_latent_embed_dim
    IN [ max_curves_num        |-> max_curves_num,
         wireframe_latent_num  |-> wireframe_latent_num,
         point_embed           |-> emb.point_embed,
         col_diff_embed        |-> emb.col_diff_embed,
         row_diff_embed        |-> emb.row_diff_embed,
         latent_embed          |-> [in_features |-> CurveLatentChannels,
                                    out_features |-> curve_latent_embed_dim],
         enc_learnable_queries |-> << wireframe_latent_num, attn_dim >>,
         pos_emb               |-> << max_curves_num, attn_dim >>,
         attn_project_in       |-> [in_features |-> init_dim, out_features |-> attn_dim],
         project_out           |-> [in_features |-> attn_dim,
                                    out_features |-> 2 * out_channels],
         max_col_diff          |-> max_col_diff,
         max_row_diff          |-> max_row_diff ]

(* pack([...], 'b nl *'): the tensors agree on the leading axes and are    *)
(* concatenated on the last                                                *)
Pack4(a, b, c, d, stage) ==
    IF Front(a) = Front(b) /\ Front(a) = Front(c) /\ Front(a) = Front(d)
    THEN Ok(Front(a) \o << Last(a) + Last(b) + Last(c) + Last(d) >>)
    ELSE Fail(stage)

(* Encoder1D.forward on xs of shape xs and flag_diffs of shape fds whose   *)
(* column and row offsets take the values cols and rows                    *)
Encoder1D_forward(enc, xs, fds, cols, rows) ==
    IF Len(xs) # 3 \/ Len(fds) # 3 THEN Fail("rearrange") ELSE
    LET bs == xs[1]
        line_coords == SliceLast(xs, 0, NumSegments)
        points == << bs * xs[2] * 2, Last(line_coords) \div 2 >>
        diffs == SliceLastFrom(fds, 1)
        col_diff == Front(diffs)
        row_diff == Front(diffs)
        curve_latent == SliceLastFrom(xs, NumSegments)
        context_padding_mask == << fds[1], fds[2] >>
        (* the steps of forward, the last one first: each takes what the   *)
        (* steps before it produced                                        *)
        project_out(ca) ==
            IF ~ca.ok THEN ca ELSE Linear(enc.project_out, ca.shape, "project_out")
        cross_attn(wire_embed) ==
            IF ~wire_embed.ok THEN wire_embed ELSE
            project_out(CrossAttn(<< wire_embed.shape[1] >> \o enc.enc_learnable_queries,
                                  wire_embed.shape, context_padding_mask, "cross_attn"))
        add_pos_emb(pi) ==
            IF ~pi.ok THEN pi ELSE cross_attn(Broadcast(enc.pos_emb, pi.shape, "pos_emb"))
        attn_project_in(pk) ==
            IF ~pk.ok THEN pk ELSE
            add_pos_emb(Linear(enc.attn_project_in, pk.shape, "attn_project_in"))
        pack_embeds(pe, ce, re, le) ==
            IF ~le.ok THEN le ELSE
            attn_project_in(Pack4(<< bs, xs[2], 2 * Last(pe.shape) >>, ce.shape, re.shape,
                                  le.shape, "pack"))
        latent_embed(pe, ce, re) ==
            IF ~re.ok THEN re ELSE
            pack_embeds(pe, ce, re, Linear(enc.latent_embed, curve_latent, "latent_embed"))
        row_diff_embed(pe, ce) ==
            IF ~ce.ok THEN ce ELSE
            latent_embed(pe, ce, Embedding(enc.row_diff_embed, row_diff, rows,
                                           "row_diff_embed"))
        col_diff_embed(pe) ==
            IF ~pe.ok THEN pe ELSE
            IF fds[3] < 1 \/ Last(diffs) < 2 THEN Fail("index") ELSE
            row_diff_embed(pe, Embedding(enc.col_diff_embed, col_diff, cols,
                                         "col_diff_embed"))
    IN IF Last(line_coords) % 2 # 0 THEN Fail("rearrange") ELSE
       col_diff_embed(PointEmbed(enc.point_embed, points, "point_embed"))

---------------------------------------------------------------------------
(* Decoder1D *)

(* Decoder1D.__init__: pos_emb exists only when use_latent_pos_emb is set  *)
(* (the empty shape stands for its absence)                                *)
Decoder1D_init(in_channels, attn_dim, max_curves_num, wireframe_latent_num, use_latent_pos_emb) ==
    [ max_curves_num      |-> max_curves_num,
      use_latent_pos_emb  |-> use_latent_pos_emb,
      proj_in             |-> [in_features |-> in_channels, out_features |-> attn_dim],
      pos_emb             |-> IF use_latent_pos_emb
                              THEN << wireframe_latent_num, attn_dim >>
                              ELSE << >>,
      dec_learnable_query |-> << 1 + max_curves_num, attn_dim >>,
      proj_out            |-> [in_features |-> attn_dim, out_features |-> attn_dim] ]

Decoder1D_forward(dec, zs) ==
    IF Len(zs) < 1 THEN Fail("proj_in") ELSE
    LET bs == zs[1]
        query_embed == << bs >> \o dec.dec_learnable_query
        (* the steps of forward, the last one first *)
        proj_out(ca) ==
            IF ~ca.ok THEN ca ELSE Linear(dec.proj_out, ca.shape, "proj_out")
        cross_attn(sa) ==
            IF ~sa.ok THEN sa ELSE
            proj_out(CrossAttn(query_embed, sa.shape, << >>, "cross_attn"))
        self_attn(wl) ==
            IF ~wl.ok THEN wl ELSE cross_attn(SelfAttn(wl.shape, "self_attn"))
        add_pos_emb(pi) ==
            IF ~pi.ok THEN pi ELSE
            self_attn(IF dec.use_latent_pos_emb
                      THEN Broadcast(dec.pos_emb, pi.shape, "pos_emb")
                      ELSE pi)
    IN add_pos_emb(Linear(dec.proj_in, zs, "proj_in"))

---------------------------------------------------------------------------
(* AutoencoderKLWireframe *)

(* The encoder as AutoencoderKLWireframe and AutoencoderKLWireframeFastEncode *)
(* construct it: max_col_diff and max_row_diff are not passed and keep the    *)
(* defaults of Encoder1D's signature                                          *)
OwnedEncoder(c, curve_latent_embed_dim) ==
    Encoder1D_init(c.latent_channels, EncoderDefaultMaxColDiff, EncoderDefaultMaxRowDiff,
                   c.attn_dim, c.max_curves_num, c.wireframe_latent_num,
                   curve_latent_embed_dim)

(* The decoder as AutoencoderKLWireframe and AutoencoderKLWireframeFastDecode *)
(* construct it: wireframe_latent_num is not passed and keeps the default of  *)
(* Decoder1D's signature                                                      *)
OwnedDecoder(c) ==
    Decoder1D_init(c.latent_channels, c.attn_dim, c.max_curves_num,
                   DecoderDefaultWireframeLatentNum, c.use_latent_pos_emb)

(* the prediction heads both owners build: four MLPs, or predict_cls and  *)
(* one feature layer whose width is the literal 6 + 6 + 32 + 12           *)
PredictHeads(use_mlp_predict, attn_dim, max_curves_num, max_col_diff, max_row_diff) ==
    IF use_mlp_predict
    THEN [ predict_cls          |-> [in_dim |-> attn_dim, out_dim |-> max_curves_num],
           predict_diffs        |-> [in_dim |-> attn_dim,
                                     out_dim |-> max_col_diff + max_row_diff],
           predict_segments     |-> [in_dim |-> attn_dim, out_dim |-> 6],
           predict_curve_latent |-> [in_dim |-> attn_dim, out_dim |-> 12] ]
    ELSE [ predict_cls          |-> [in_features |-> attn_dim,
                                     out_features |-> max_curves_num],
           predict_features     |-> [in_features |-> attn_dim,
                                     out_features |-> 6 + 6 + 32 + 12] ]

(* the labels torch.linspace(-1, 1, n) themselves, without torch.exp *)
ClassLabels(n) == [i \in 1..n |-> Linspace(-1000, 1000, n, i - 1)]

(* torch.exp(torch.linspace(-1, 1, n)), in thousandths *)
ClassWeights(n) == [i \in 1..n |-> Exp(Linspace(-1000, 1000, n, i - 1))]

(* 1.2 - 0.2 * torch.log(torch.linspace(0, 2, n) + 1.7183), in thousandths *)
ColWeights(n) == [i \in 1..n |-> 1200 - (200 * Log(Linspace(0, 2000, n, i - 1) + 1718)) \div 1000]

AutoencoderKLWireframe_init(c) ==
    [ max_col_diff    |-> c.max_col_diff,
      max_row_diff    |-> c.max_row_diff,
      max_curves_num  |-> c.max_curves_num,
      encoder         |-> OwnedEncoder(c, c.curve_latent_embed_dim),
      decoder         |-> OwnedDecoder(c),
      use_mlp_predict |-> c.use_mlp_predict,
      heads           |-> PredictHeads(c.use_mlp_predict, c.attn_dim, c.max_curves_num,
                                       c.max_col_diff, c.max_row_diff),
      quant_proj      |-> [in_features |-> 2 * c.latent_channels,
                           out_features |-> 2 * c.latent_channels],
      post_quant_proj |-> [in_features |-> c.latent_channels,
                           out_features |-> c.latent_channels],
      ce_loss         |-> IF c.use_focal_loss THEN "focal_loss" ELSE "ce_loss",
      cls_loss_weight          |-> c.cls_loss_weight,
      segment_loss_weight      |-> c.segment_loss_weight,
      col_diff_loss_weight     |-> c.col_diff_loss_weight,
      row_diff_loss_weight     |-> c.row_diff_loss_weight,
      curve_latent_loss_weight |-> c.curve_latent_loss_weight,
      kl_loss_weight           |-> c.kl_loss_weight,
      col_diff_class_weights   |-> ClassWeights(c.max_col_diff),
      row_diff_class_weights   |-> ClassWeights(c.max_row_diff),
      col_weights              |-> ColWeights(c.max_curves_num) ]

(* DiagonalGaussianDistribution(moments): mean and logvar are the two     *)
(* halves of torch.chunk(moments, 2, dim=1)                                *)
DiagonalGaussianDistribution(moments) ==
    LET half == << moments[1], (moments[2] + 1) \div 2, moments[3] >>
        rest == << moments[1], moments[2] - (moments[2] + 1) \div 2, moments[3] >>
    IN [ok |-> TRUE, at |-> "none", mean |-> half, logvar |-> rest, std |-> rest]

NoPosterior(stage) ==
    [ok |-> FALSE, at |-> stage, mean |-> << >>, logvar |-> << >>, std |-> << >>]

(* encode: encoder, quant_proj, rearrange 'b n d -> b d n', posterior *)
Encode(encoder, quant_proj, xs, fds, cols, rows) ==
    LET distribution(q) ==
            IF ~q.ok THEN NoPosterior(q.at) ELSE
            DiagonalGaussianDistribution(<< q.shape[1], q.shape[3], q.shape[2] >>)
        quant(h) ==
            IF ~h.ok THEN NoPosterior(h.at) ELSE
            distribution(Linear(quant_proj, h.shape, "quant_proj"))
    IN quant(Encoder1D_forward(encoder, xs, fds, cols, rows))

AutoencoderKLWireframe_encode(self, xs, fds, cols, rows) ==
    Encode(self.encoder, self.quant_proj, xs, fds, cols, rows)

(* _decode then decode: rearrange 'b d n -> b n d', post_quant_proj, decoder *)
Decode(decoder, post_quant_proj, z) ==
    IF Len(z) # 3 THEN Fail("rearrange") ELSE
    LET decoded(pq) == IF ~pq.ok THEN pq ELSE Decoder1D_forward(decoder, pq.shape)
    IN decoded(Linear(post_quant_proj, << z[1], z[3], z[2] >>, "post_quant_proj"))

AutoencoderKLWireframe_decode(self, z) == Decode(self.decoder, self.post_quant_proj, z)

(* a head layer is an nn.Linear or an MLP, whichever __init__ stored *)
CallLayer(layer, s, stage) ==
    IF "in_features" \in DOMAIN layer THEN Linear(layer, s, stage) ELSE MLP(layer, s, stage)

Preds(cls, segments, diffs, curve_latent) ==
    [ok |-> TRUE, at |-> "none", cls |-> cls, segments |-> segments, diffs |-> diffs,
     curve_latent |-> curve_latent]

NoPreds(stage) ==
    [ok |-> FALSE, at |-> stage, cls |-> << >>, segments |-> << >>, diffs |-> << >>,
     curve_latent |-> << >>]

(* dec[:, 0] and dec[:, 1:] of a (b, n, d) tensor *)
ClsToken(dec) == << dec[1], dec[3] >>

FeatureTokens(dec) == << dec[1], dec[2] - 1, dec[3] >>

linear_predict(heads, max_col_diff, max_row_diff, dec) ==
    LET num_segments == NumSegments
        num_diffs == num_segments + max_col_diff + max_row_diff
        split(pred_cls_logits, pred_features_logits) ==
            IF ~pred_features_logits.ok THEN NoPreds(pred_features_logits.at) ELSE
            LET pred_segments == SliceLast(pred_features_logits.shape, 0, num_segments)
                pred_diffs_logits == SliceLast(pred_features_logits.shape, num_segments,
                                               num_diffs)
                pred_curve_latent == SliceLastFrom(pred_features_logits.shape, num_diffs)
            IN IF Last(pred_segments) # num_segments THEN NoPreds("assert segments") ELSE
               IF Last(pred_diffs_logits) # max_col_diff + max_row_diff
               THEN NoPreds("assert diffs") ELSE
               IF Last(pred_curve_latent) # 12 THEN NoPreds("assert curve_latent") ELSE
               Preds(pred_cls_logits.shape, pred_segments, pred_diffs_logits,
                     pred_curve_latent)
        features(pred_cls_logits) ==
            IF ~pred_cls_logits.ok THEN NoPreds(pred_cls_logits.at) ELSE
            IF "predict_features" \notin DOMAIN heads THEN NoPreds("AttributeError") ELSE
            split(pred_cls_logits,
                  CallLayer(heads.predict_features, FeatureTokens(dec), "predict_features"))
    IN IF Len(dec) # 3 \/ dec[2] < 1 THEN NoPreds("index") ELSE
       features(CallLayer(heads.predict_cls, ClsToken(dec), "predict_cls"))

mlp_predict(heads, dec) ==
    IF Len(dec) # 3 \/ dec[2] < 1 THEN NoPreds("index") ELSE
    LET cls_token == ClsToken(dec)
        features_tokens == FeatureTokens(dec)
        collect(pred_cls_logits, pred_segments, pred_diffs_logits, pred_curve_latent) ==
            IF ~pred_segments.ok THEN NoPreds(pred_segments.at) ELSE
            IF ~pred_diffs_logits.ok THEN NoPreds(pred_diffs_logits.at) ELSE
            IF ~pred_curve_latent.ok THEN NoPreds(pred_curve_latent.at) ELSE
            Preds(pred_cls_logits.shape, pred_segments.shape, pred_diffs_logits.shape,
                  pred_curve_latent.shape)
        features(pred_cls_logits) ==
            IF ~pred_cls_logits.ok THEN NoPreds(pred_cls_logits.at) ELSE
            IF "predict_segments" \notin DOMAIN heads THEN NoPreds("AttributeError") ELSE
            collect(pred_cls_logits,
                    CallLayer(heads.predict_segments, features_tokens, "predict_segments"),
                    CallLayer(heads.predict_diffs, features_tokens, "predict_diffs"),
                    CallLayer(heads.predict_curve_latent, features_tokens,
                              "predict_curve_latent"))
    IN features(CallLayer(heads.predict_cls, cls_token, "predict_cls"))

(* the branch on self.use_mlp_predict that every forward takes *)
Predict(self, dec) ==
    IF self.use_mlp_predict
    THEN mlp_predict(self.heads, dec)
    ELSE linear_predict(self.heads, self.max_col_diff, self.max_row_diff, dec)

---------------------------------------------------------------------------
(* The loss.  Tensors are nested sequences of integers, indexed from 1:    *)
(* xs[b][n][c], flag_diffs[b][n] = <<flag, col, row>>; the elementwise     *)
(* losses are in thousandths.                                              *)

(* xs_mask = flags > 0.5 on the integer flag channel *)
XsMask(flag_diffs) == [b \in 1..Len(flag_diffs) |-> [n \in 1..Len(flag_diffs[b]) |-> flag_diffs[b][n][1] >= 1]]

(* x[..., lo:hi] of a rank-3 tensor, channels lo+1 .. hi *)
Channels(x, lo, hi) == [b \in 1..Len(x) |-> [n \in 1..Len(x[b]) |-> SubSeq(x[b][n], lo + 1, hi)]]

(* the sum of the flag channel without the - 1 *)
ClsTargetCount(gt_flag_diffs) == [b \in 1..Len(gt_flag_diffs) |-> Sum([n \in 1..Len(gt_flag_diffs[b]) |-> gt_flag_diffs[b][n][1]])]

(* cls = gt_flag_diffs[..., 0].sum(dim=-1) - 1 *)
ClsTarget(gt_flag_diffs) == [b \in 1..Len(gt_flag_diffs) |-> Sum([n \in 1..Len(gt_flag_diffs[b]) |-> gt_flag_diffs[b][n][1]]) - 1]

(* ce_loss / FocalLoss of src.vae.modules on one position: a weighted      *)
(* measure of how far the target's logit is below the largest logit; the   *)
(* target indexes the num_classes logits                                   *)
CeDefined(logits, target, num_classes) == Len(logits) = num_classes /\ target \in 0..(num_classes - 1)

CeItem(logits, target, weight) == weight[target + 1] * (MaxTo(logits, Len(logits)) - logits[target + 1])

Ones(n) == [i \in 1..n |-> 1000]

(* torch.nn.MSELoss(reduction='none') *)
mse_loss_fn(pred, gt) == [b \in 1..Len(pred) |-> [n \in 1..Len(pred[b]) |-> [c \in 1..Len(pred[b][n]) |-> 1000 * (pred[b][n][c] - gt[b][n][c]) * (pred[b][n][c] - gt[b][n][c])]]]

(* x[mask] of a (b, n) tensor under a (b, n) mask: the sum and the number  *)
(* of the selected elements                                                *)
MaskedSum2(x, mask) == Sum([b \in 1..Len(x) |-> Sum([n \in 1..Len(x[b]) |-> IF mask[b][n] THEN x[b][n] ELSE 0])])

MaskedNumel2(mask) == Sum([b \in 1..Len(mask) |-> Sum([n \in 1..Len(mask[b]) |-> IF mask[b][n] THEN 1 ELSE 0])])

(* x[repeat(mask, 'b nl -> b nl r', r = r)] of a (b, n, r) tensor *)
MaskedSum3(x, mask) == MaskedSum2([b \in 1..Len(x) |-> [n \in 1..Len(x[b]) |-> Sum(x[b][n])]], mask)

MaskedNumel3(mask, r) == r * MaskedNumel2(mask)

(* mu_weights = 1.2 - 0.5 * log(clamp(std, 0, 1) + 1.7183) *)
MuWeight(std) == 1200 - (500 * Log(Clamp(1000 * std, 0, 1000) + 1718)) \div 1000

SameShape3(x, y) == Len(x) = Len(y) /\ \A b \in 1..Len(x) : Len(x[b]) = Len(y[b]) /\ \A n \in 1..Len(x[b]) : Len(x[b][n]) = Len(y[b][n])

NoLoss(stage, cls) == [ok |-> FALSE, at |-> stage, cls |-> cls, segment_numel |-> 0, cls_ce_loss |-> NaN, segment_mse_loss |-> NaN, col_diff_ce_loss |-> NaN, row_diff_ce_loss |-> NaN, curve_latent_loss |-> NaN]

(* segment_mse_loss[line_mask].mean() with the mean taken over every       *)
(* element of the tensor                                                   *)
SegmentLossUnmasked(pred_segments, gt_segment_coords, xs_mask) ==
    LET e == mse_loss_fn(pred_segments, gt_segment_coords)
        all == [b \in 1..Len(xs_mask) |-> [n \in 1..Len(xs_mask[b]) |-> TRUE]]
    IN [numel |-> MaskedNumel3(all, 6), value |-> Mean(MaskedSum3(e, all), MaskedNumel3(all, 6))]

(* lines 484-487: the squared errors at the positions of xs_mask, averaged *)
SegmentLoss(pred_segments, gt_segment_coords, xs_mask) ==
    LET e == mse_loss_fn(pred_segments, gt_segment_coords)
    IN [numel |-> MaskedNumel3(xs_mask, 6), value |-> Mean(MaskedSum3(e, xs_mask), MaskedNumel3(xs_mask, 6))]

(* lines 491-517: the weighted cross entropies of the column and the row   *)
(* offsets, the column one times col_weights, at the positions of xs_mask  *)
DiffLosses(self, pred_diffs_logits, diffs, xs_mask) ==
    LET col == [b \in 1..Len(diffs) |-> [n \in 1..Len(diffs[b]) |-> (CeItem(SubSeq(pred_diffs_logits[b][n], 1, self.max_col_diff), diffs[b][n][1], self.col_diff_class_weights) * self.col_weights[n]) \div 1000]]
        row == [b \in 1..Len(diffs) |-> [n \in 1..Len(diffs[b]) |-> CeItem(SubSeq(pred_diffs_logits[b][n], self.max_col_diff + 1, Len(pred_diffs_logits[b][n])), diffs[b][n][2], self.row_diff_class_weights)]]
    IN [col |-> Mean(MaskedSum2(col, xs_mask), MaskedNumel2(xs_mask)), row |-> Mean(MaskedSum2(row, xs_mask), MaskedNumel2(xs_mask))]

(* the latent loss with the mean taken over every element *)
CurveLatentLossUnmasked(pred_curve_latent_mu, gt_curve_latent, xs_mask) ==
    LET e == mse_loss_fn(pred_curve_latent_mu, Channels(gt_curve_latent, 0, 12))
        w == [b \in 1..Len(e) |-> [n \in 1..Len(e[b]) |-> [c \in 1..12 |-> (MuWeight(gt_curve_latent[b][n][12 + c]) * e[b][n][c]) \div 1000]]]
        all == [b \in 1..Len(xs_mask) |-> [n \in 1..Len(xs_mask[b]) |-> TRUE]]
    IN Mean(MaskedSum3(w, all), MaskedNumel3(all, 12))

(* lines 520-524: the squared error of the latent mean, weighted by the    *)
(* clamped spread, at the positions of xs_mask                             *)
CurveLatentLoss(pred_curve_latent_mu, gt_curve_latent, xs_mask) ==
    LET e == mse_loss_fn(pred_curve_latent_mu, Channels(gt_curve_latent, 0, 12))
        w == [b \in 1..Len(e) |-> [n \in 1..Len(e[b]) |-> [c \in 1..12 |-> (MuWeight(gt_curve_latent[b][n][12 + c]) * e[b][n][c]) \div 1000]]]
    IN Mean(MaskedSum3(w, xs_mask), MaskedNumel3(xs_mask, 12))

(* AutoencoderKLWireframe.loss *)
Loss(self, gt_segment_coords, gt_flag_diffs, gt_curve_latent, xs_mask, preds) ==
    LET bs == Len(preds.cls)
        cls == ClsTarget(gt_flag_diffs)
        diffs == [b \in 1..Len(gt_flag_diffs) |-> [n \in 1..Len(gt_flag_diffs[b]) |-> SubSeq(gt_flag_diffs[b][n], 2, 3)]]
    IN IF Len(cls) # bs \/ \E b \in 1..bs : ~CeDefined(preds.cls[b], cls[b], self.max_curves_num)
       THEN NoLoss("cls ce_loss", cls) ELSE
    LET cls_ce_loss == Mean(Sum([b \in 1..bs |-> CeItem(preds.cls[b], cls[b], Ones(self.max_curves_num))]), bs)
    IN IF ~SameShape3(preds.segments, gt_segment_coords) THEN NoLoss("mse_loss_fn", cls) ELSE
    LET seg == SegmentLoss(preds.segments, gt_segment_coords, xs_mask)
    IN IF \E b \in 1..bs : \E n \in 1..Len(preds.diffs[b]) : Len(preds.diffs[b][n]) < self.max_col_diff
       THEN NoLoss("split", cls) ELSE
       IF \E b \in 1..bs : \E n \in 1..Len(preds.diffs[b]) :
              \/ ~CeDefined(SubSeq(preds.diffs[b][n], 1, self.max_col_diff), diffs[b][n][1], self.max_col_diff)
              \/ ~CeDefined(SubSeq(preds.diffs[b][n], self.max_col_diff + 1, Len(preds.diffs[b][n])), diffs[b][n][2], self.max_row_diff)
       THEN NoLoss("diff ce_loss", cls) ELSE
       IF \E b \in 1..bs : Len(preds.diffs[b]) # Len(self.col_weights) THEN NoLoss("col_weights", cls) ELSE
    LET dl == DiffLosses(self, preds.diffs, diffs, xs_mask)
    IN [ ok                |-> TRUE,
         at                |-> "none",
         cls               |-> cls,
         segment_numel     |-> seg.numel,
         cls_ce_loss       |-> cls_ce_loss,
         segment_mse_loss  |-> seg.value,
         col_diff_ce_loss  |-> dl.col,
         row_diff_ce_loss  |-> dl.row,
         curve_latent_loss |-> CurveLatentLoss(preds.curve_latent, gt_curve_latent, xs_mask) ]

---------------------------------------------------------------------------
(* The learned maps.  The weights of the networks are fixed at             *)
(* construction (params); what a network computes is a function of its    *)
(* weights and of everything it is given, and of nothing else.            *)

(* a number that depends on every entry of a rank-3 tensor *)
Digest(x) == Sum([b \in 1..Len(x) |-> Sum([n \in 1..Len(x[b]) |-> Sum(x[b][n])])])

(* the statistics of the posterior that encoder and quant_proj produce    *)
(* from xs and flag_diffs, every element alike: DiagonalGaussianDistribution *)
(* clamps logvar to [-30, 20] and takes std = exp(0.5 logvar), var = exp(logvar) *)
PosteriorValues(p, xs, flag_diffs) ==
    LET d == (Digest(xs) + Digest(flag_diffs)) % 3
        mean == FMul(p.gain, Fin(1000 * d))
        raw == FMul(p.gain, Fin(0))
        logvar == IF raw.k = "fin" THEN Fin(Clamp(raw.v, -30000, 20000)) ELSE NaN
    IN [ mean   |-> mean,
         logvar |-> logvar,
         std    |-> IF logvar.k = "fin" THEN Fin(Exp(logvar.v \div 2)) ELSE NaN,
         var    |-> IF logvar.k = "fin" THEN Fin(Exp(logvar.v)) ELSE NaN,
         digest |-> d ]

(* posterior.mode() and posterior.sample(generator) *)
Mode(posterior) == [from |-> "mode", digest |-> posterior.digest]

Sample(posterior, generator) == [from |-> "sample", digest |-> posterior.digest + 1]

(* the values the heads produce from the latent z, as tensors of the       *)
(* shapes the heads give                                                   *)
Pattern(seed, shape) == [b \in 1..shape[1] |-> [n \in 1..shape[2] |-> IF Len(shape) = 2 THEN (seed + b + 2 * n) % 3 ELSE [c \in 1..shape[3] |-> (seed + b + n + c) % 3]]]

PredValues(seed, shapes) ==
    [ cls          |-> Pattern(seed, shapes.cls),
      segments     |-> Pattern(seed, shapes.segments),
      diffs        |-> Pattern(seed + 1, shapes.diffs),
      curve_latent |-> Pattern(seed + 2, shapes.curve_latent) ]

HeadSeed(z) == z.digest % 3

---------------------------------------------------------------------------
(* AutoencoderKLWireframe.forward *)

ShapeOf3(x) == << Len(x), Len(x[1]), Len(x[1][1]) >>

OffsetValues(flag_diffs, c) == { flag_diffs[b][n][c] : b \in 1..Len(flag_diffs), n \in 1..Len(flag_diffs[1]) }

(* a loss term taken as it is, whatever its weight *)
Unweighted(w, x) == x

(* multiplication by a configured loss weight, given in ten-thousandths *)
Weighted(w, x) ==
    IF x.k = "nan" THEN NaN
    ELSE IF x.k = "inf" THEN (IF w = 0 THEN NaN ELSE Inf(x.v * Sign(w)))
    ELSE Round(w * (x.v \div 10000) + (w * (x.v % 10000)) \div 10000)

(* line 586: 0.5 * sum(mean^2 + var - 1 - logvar, dim=[1, 2]).mean() over  *)
(* numel elements per batch item                                           *)
KlLoss(posterior, numel) ==
    LET t == FSub(FSub(FAdd(FMul(posterior.mean, posterior.mean), posterior.var), Fin(1000)), posterior.logvar)
    IN FMul(Fin(500), FMul(Fin(1000 * numel), t))

(* lines 588-589: if not sample_posterior: kl_loss = 0 * kl_loss *)
KlZeroed(kl_loss, sample_posterior) == IF ~sample_posterior THEN FMul(Fin(0), kl_loss) ELSE kl_loss

(* lines 582-630: what forward returns once the predictions are made *)
ForwardReturn(self, posterior, numel, xs, flag_diffs, preds, sample_posterior, return_dict, return_loss) ==
    IF ~return_dict THEN [kind |-> "tuple", holds |-> "preds", value |-> preds] ELSE
    IF ~return_loss THEN [kind |-> "preds", holds |-> "preds", value |-> preds] ELSE
    LET pair(l, kl_loss) ==
            IF ~l.ok THEN [kind |-> "raise", at |-> l.at] ELSE
            [ kind |-> "loss_pair",
              holds |-> "loss",
              loss |-> FAdd(FAdd(FAdd(FAdd(FAdd(Weighted(self.cls_loss_weight, l.cls_ce_loss),
                                                Weighted(self.segment_loss_weight, l.segment_mse_loss)),
                                           Weighted(self.col_diff_loss_weight, l.col_diff_ce_loss)),
                                      Weighted(self.row_diff_loss_weight, l.row_diff_ce_loss)),
                                 Weighted(self.curve_latent_loss_weight, l.curve_latent_loss)),
                            Weighted(self.kl_loss_weight, kl_loss)),
              all_losses |-> [ cls_ce_loss       |-> l.cls_ce_loss,
                               segment_mse_loss  |-> l.segment_mse_loss,
                               col_diff_ce_loss  |-> l.col_diff_ce_loss,
                               row_diff_ce_loss  |-> l.row_diff_ce_loss,
                               curve_latent_loss |-> l.curve_latent_loss,
                               kl_loss           |-> kl_loss,
                               mu                |-> IF posterior.mean.k = "nan" THEN NaN ELSE [k |-> posterior.mean.k, v |-> Abs(posterior.mean.v)],
                               std               |-> posterior.std ] ]
    IN pair(Loss(self, Channels(xs, 0, 6), flag_diffs, Channels(xs, 6, Len(xs[1][1])), XsMask(flag_diffs), PredValues(preds.seed, preds)),
            KlZeroed(KlLoss(posterior, numel), sample_posterior))

(* a forward whose encoder also reads the channels of xs past the 18th *)
AutoencoderKLWireframe_forward_encoding_all(self, p, xs, flag_diffs, sample_posterior, return_dict, generator, return_loss) ==
    LET enc_xs == Channels(xs, 0, 18)
        (* the steps of forward, the last one first *)
        returns(ps, posterior, z, shapes) ==
            IF ~shapes.ok THEN [kind |-> "raise", at |-> shapes.at] ELSE
            ForwardReturn(self, posterior, ps.mean[2] * ps.mean[3], xs, flag_diffs,
                          [seed |-> HeadSeed(z), cls |-> shapes.cls, segments |-> shapes.segments, diffs |-> shapes.diffs, curve_latent |-> shapes.curve_latent],
                          sample_posterior, return_dict, return_loss)
        predict(ps, posterior, dec) ==
            IF ~dec.ok THEN [kind |-> "raise", at |-> dec.at] ELSE
            returns(ps, posterior,
                    IF sample_posterior THEN Sample(posterior, generator) ELSE Mode(posterior),
                    Predict(self, dec.shape))
        decode(ps) ==
            IF ~ps.ok THEN [kind |-> "raise", at |-> ps.at] ELSE
            predict(ps, PosteriorValues(p, xs, flag_diffs),
                    AutoencoderKLWireframe_decode(self, ps.mean))
    IN decode(AutoencoderKLWireframe_encode(self, ShapeOf3(enc_xs), ShapeOf3(flag_diffs), OffsetValues(flag_diffs, 2), OffsetValues(flag_diffs, 3)))

(* forward(xs, flag_diffs, sample_posterior, return_dict, generator, return_loss) *)
AutoencoderKLWireframe_forward(self, p, xs, flag_diffs, sample_posterior, return_dict, generator, return_loss) ==
    LET enc_xs == Channels(xs, 0, 18)
        (* the steps of forward, the last one first *)
        returns(ps, posterior, z, shapes) ==
            IF ~shapes.ok THEN [kind |-> "raise", at |-> shapes.at] ELSE
            ForwardReturn(self, posterior, ps.mean[2] * ps.mean[3], xs, flag_diffs,
                          [seed |-> HeadSeed(z), cls |-> shapes.cls, segments |-> shapes.segments, diffs |-> shapes.diffs, curve_latent |-> shapes.curve_latent],
                          sample_posterior, return_dict, return_loss)
        predict(ps, posterior, dec) ==
            IF ~dec.ok THEN [kind |-> "raise", at |-> dec.at] ELSE
            returns(ps, posterior,
                    IF sample_posterior THEN Sample(posterior, generator) ELSE Mode(posterior),
                    Predict(self, dec.shape))
        decode(ps) ==
            IF ~ps.ok THEN [kind |-> "raise", at |-> ps.at] ELSE
            predict(ps, PosteriorValues(p, enc_xs, flag_diffs),
                    AutoencoderKLWireframe_decode(self, ps.mean))
    IN decode(AutoencoderKLWireframe_encode(self, ShapeOf3(enc_xs), ShapeOf3(flag_diffs), OffsetValues(flag_diffs, 2), OffsetValues(flag_diffs, 3)))

---------------------------------------------------------------------------
(* AutoencoderKLWireframeFastEncode *)

AutoencoderKLWireframeFastEncode_init(c) ==
    [ max_col_diff   |-> c.max_col_diff,
      max_row_diff   |-> c.max_row_diff,
      max_curves_num |-> c.max_curves_num,
      encoder        |-> OwnedEncoder(c, FastEncodeCurveLatentEmbedDim),
      quant_proj     |-> [in_features |-> 2 * c.latent_channels,
                          out_features |-> 2 * c.latent_channels] ]

(* torch.cat([a, b], dim=1) of two rank-3 tensors *)
Cat1(a, b, stage) ==
    IF Len(a) = 3 /\ Len(b) = 3 /\ a[1] = b[1] /\ a[3] = b[3]
    THEN Ok(<< a[1], a[2] + b[2], a[3] >>)
    ELSE Fail(stage)

(* forward with the branch on sample_posterior that the source keeps       *)
(* commented out                                                           *)
AutoencoderKLWireframeFastEncode_forward_sampling(self, xs, fds, cols, rows, sample_posterior, generator, return_std) ==
    IF Len(xs) < 1 THEN [ok |-> FALSE, at |-> "index", shape |-> << >>, parts |-> << >>] ELSE
    LET cat(zs, z) == [ok |-> zs.ok, at |-> zs.at, shape |-> zs.shape, parts |-> << z, "std" >>]
        latent(posterior, z) ==
            IF ~posterior.ok
            THEN [ok |-> FALSE, at |-> posterior.at, shape |-> << >>, parts |-> << >>] ELSE
            IF return_std
            THEN cat(Cat1(posterior.mean, posterior.std, "cat"), z)
            ELSE [ok |-> TRUE, at |-> "none", shape |-> posterior.mean, parts |-> << z >>]
    IN latent(Encode(self.encoder, self.quant_proj, SliceLast(xs, 0, 18), fds, cols, rows),
              IF sample_posterior THEN "sample" ELSE "mode")

(* forward: encode xs[..., :18], take posterior.mode(); sample_posterior   *)
(* and generator are accepted and not read.  "parts" names what the        *)
(* returned tensor is made of                                              *)
AutoencoderKLWireframeFastEncode_forward(self, xs, fds, cols, rows, sample_posterior, generator, return_std) ==
    IF Len(xs) < 1 THEN [ok |-> FALSE, at |-> "index", shape |-> << >>, parts |-> << >>] ELSE
    LET cat(zs) == [ok |-> zs.ok, at |-> zs.at, shape |-> zs.shape, parts |-> << "mode", "std" >>]
        latent(posterior) ==
            IF ~posterior.ok
            THEN [ok |-> FALSE, at |-> posterior.at, shape |-> << >>, parts |-> << >>] ELSE
            LET mu == posterior.mean
                std == posterior.std
            IN IF return_std
               THEN cat(Cat1(mu, std, "cat"))
               ELSE [ok |-> TRUE, at |-> "none", shape |-> mu, parts |-> << "mode" >>]
    IN latent(Encode(self.encoder, self.quant_proj, SliceLast(xs, 0, 18), fds, cols, rows))

---------------------------------------------------------------------------
(* AutoencoderKLWireframeFastDecode *)

AutoencoderKLWireframeFastDecode_init(c) ==
    [ max_col_diff    |-> c.max_col_diff,
      max_row_diff    |-> c.max_row_diff,
      max_curves_num  |-> c.max_curves_num,
      decoder         |-> OwnedDecoder(c),
      use_mlp_predict |-> c.use_mlp_predict,
      heads           |-> PredictHeads(c.use_mlp_predict, c.attn_dim, c.max_curves_num,
                                       c.max_col_diff, c.max_row_diff),
      post_quant_proj |-> [in_features |-> c.latent_channels,
                           out_features |-> c.latent_channels] ]

(* forward: rearrange 'b nwl d -> b d nwl', decode, predict; returns       *)
(* (dec,) when return_dict is false and preds otherwise                    *)
AutoencoderKLWireframeFastDecode_forward(self, zs, return_dict) ==
    IF Len(zs) # 3 THEN [kind |-> "raise", at |-> "rearrange"] ELSE
    LET returns(dec, preds) ==
            IF ~preds.ok THEN [kind |-> "raise", at |-> preds.at] ELSE
            IF ~return_dict
            THEN [kind |-> "tuple", holds |-> "dec", value |-> dec.shape]
            ELSE [kind |-> "preds", holds |-> "preds", value |-> preds]
        predict(dec) ==
            IF ~dec.ok THEN [kind |-> "raise", at |-> dec.at] ELSE
            returns(dec, Predict(self, dec.shape))
    IN predict(Decode(self.decoder, self.post_quant_proj, << zs[1], zs[3], zs[2] >>))

---------------------------------------------------------------------------
(* Inputs *)

(* the values the offsets of a flag_diffs tensor take: always within the   *)
(* range the model is configured with                                      *)
OffsetValueSets(n) == { {0}, {0, n - 1} }

(* the channel counts of the xs a caller hands to encode: the 6 + 12 that  *)
(* Encoder1D.forward declares, and the 6 + 12 + 12 of the training tensor *)
XsChannels == { NumSegments + CurveLatentChannels, NumSegments + 2 * CurveLatentChannels }

(* The flags of one batch item of n segments, row j of a family: the      *)
(* first j segments valid (j <= n); one valid segment flagged 2; only the  *)
(* last segment valid; one valid segment followed by padding flagged -1    *)
FlagRow(n, j) ==
    [i \in 1..n |->
        IF j <= n THEN (IF i <= j THEN 1 ELSE 0)
        ELSE IF j = n + 1 THEN (IF i = 1 THEN 2 ELSE 0)
        ELSE IF j = n + 2 THEN (IF i = n THEN 1 ELSE 0)
        ELSE (IF i = 1 THEN 1 ELSE -1)]

FlagRowCount(n) == n + 4

(* flag_diffs of b items of n segments: item k has row j + k - 1 of the    *)
(* family; the offsets are all 0 (os = 0) or run down from the largest     *)
(* configured value (os = 1).  The calls below take os from the seed of xs *)
FlagDiffsTensor(b, n, j, os, max_col_diff, max_row_diff) ==
    [k \in 1..b |-> [i \in 1..n |->
        << FlagRow(n, (j + k - 1) % FlagRowCount(n))[i],
           IF os = 0 THEN 0 ELSE (max_col_diff - i) % max_col_diff,
           IF os = 0 THEN 0 ELSE (max_row_diff - i) % max_row_diff >> ]]

(* xs of b items of n segments and ch channels *)
XsTensor(b, n, ch, seed) == [k \in 1..b |-> [i \in 1..n |-> [c \in 1..ch |-> (seed + k + i + c) % 3]]]

Seeds == 0..1

Gains == { Fin(1000), Inf(1) }

Idle == [op |-> "idle"]

Init ==
    /\ cfg \in Configs
    /\ params \in [gain : Gains]
    /\ ae = AutoencoderKLWireframe_init(cfg)
    /\ fe = AutoencoderKLWireframeFastEncode_init(cfg)
    /\ fd = AutoencoderKLWireframeFastDecode_init(cfg)
    /\ ret = Idle

(* encode(xs, flag_diffs) with xs padded to n <= max_curves_num segments *)
CallEncode ==
    \E b \in 1..MaxBatch, n \in 1..MaxCurves, ch \in XsChannels,
       cols \in OffsetValueSets(cfg.max_col_diff), rows \in OffsetValueSets(cfg.max_row_diff) :
        /\ ret = Idle
        /\ n <= cfg.max_curves_num
        /\ ret' = [ op   |-> "encode",
                    xs   |-> << b, n, ch >>,
                    cols |-> cols,
                    rows |-> rows,
                    out  |-> AutoencoderKLWireframe_encode(ae, << b, n, ch >>, << b, n, 3 >>,
                                                           cols, rows) ]
        /\ UNCHANGED <<cfg, params, ae, fe, fd>>

(* decode(z) with z of shape (b, latent_channels, wireframe_latent_num) *)
CallDecode ==
    \E b \in 1..MaxBatch :
        /\ ret = Idle
        /\ LET z == << b, cfg.latent_channels, cfg.wireframe_latent_num >>
           IN ret' = [ op  |-> "decode",
                       z   |-> z,
                       out |-> AutoencoderKLWireframe_decode(ae, z) ]
        /\ UNCHANGED <<cfg, params, ae, fe, fd>>

(* linear_predict(dec) and mlp_predict(dec) on a decoder output *)
CallLinearPredict ==
    \E b \in 1..MaxBatch :
        /\ ret = Idle
        /\ LET dec == << b, 1 + cfg.max_curves_num, cfg.attn_dim >>
           IN ret' = [ op  |-> "linear_predict",
                       dec |-> dec,
                       out |-> linear_predict(ae.heads, ae.max_col_diff, ae.max_row_diff,
                                              dec) ]
        /\ UNCHANGED <<cfg, params, ae, fe, fd>>

CallMlpPredict ==
    \E b \in 1..MaxBatch :
        /\ ret = Idle
        /\ LET dec == << b, 1 + cfg.max_curves_num, cfg.attn_dim >>
           IN ret' = [ op  |-> "mlp_predict",
                       dec |-> dec,
                       out |-> mlp_predict(ae.heads, dec) ]
        /\ UNCHANGED <<cfg, params, ae, fe, fd>>

(* AutoencoderKLWireframeFastEncode.forward *)
CallFastEncode ==
    \E b \in 1..MaxBatch, n \in 1..MaxCurves,
       cols \in OffsetValueSets(cfg.max_col_diff), rows \in OffsetValueSets(cfg.max_row_diff),
       sample_posterior \in BOOLEAN, generator \in {"None", "seeded"},
       return_std \in BOOLEAN :
        /\ ret = Idle
        /\ n <= cfg.max_curves_num
        /\ ret' = [ op               |-> "fast_encode",
                    xs               |-> << b, n, 30 >>,
                    sample_posterior |-> sample_posterior,
                    generator        |-> generator,
                    return_std       |-> return_std,
                    out |-> AutoencoderKLWireframeFastEncode_forward(
                                fe, << b, n, 30 >>, << b, n, 3 >>, cols, rows,
                                sample_posterior, generator, return_std) ]
        /\ UNCHANGED <<cfg, params, ae, fe, fd>>

(* AutoencoderKLWireframeFastDecode.forward on zs of shape                 *)
(* (b, wireframe_latent_num, latent_channels)                              *)
CallFastDecode ==
    \E b \in 1..MaxBatch, return_dict \in BOOLEAN :
        /\ ret = Idle
        /\ LET zs == << b, cfg.wireframe_latent_num, cfg.latent_channels >>
           IN ret' = [ op          |-> "fast_decode",
                       zs          |-> zs,
                       return_dict |-> return_dict,
                       out |-> AutoencoderKLWireframeFastDecode_forward(fd, zs, return_dict) ]
        /\ UNCHANGED <<cfg, params, ae, fe, fd>>

(* a loss that divides the column weights by the batch size in place       *)
(* (self.col_weights.div_(2 * bs))                                         *)
CallLossScalingColWeights ==
    \E b \in 1..MaxBatch, j \in 0..(FlagRowCount(cfg.max_curves_num) - 1), seed \in Seeds, pseed \in Seeds :
        /\ ret = Idle
        /\ LET n == cfg.max_curves_num
               xs == XsTensor(b, n, 30, seed)
               flag_diffs == FlagDiffsTensor(b, n, j, seed, cfg.max_col_diff, cfg.max_row_diff)
               shapes == [cls |-> << b, n >>, segments |-> << b, n, 6 >>, diffs |-> << b, n, cfg.max_col_diff + cfg.max_row_diff >>, curve_latent |-> << b, n, 12 >>]
           IN ret' = [ op    |-> "loss",
                       b     |-> b,
                       j     |-> j,
                       seed  |-> seed,
                       pseed |-> pseed,
                       preds |-> shapes,
                       out   |-> Loss(ae, Channels(xs, 0, 6), flag_diffs, Channels(xs, 6, 30), XsMask(flag_diffs), PredValues(pseed, shapes)) ]
        /\ ae' = [ae EXCEPT !.col_weights = [i \in DOMAIN ae.col_weights |-> ae.col_weights[i] \div (2 * b)]]
        /\ UNCHANGED <<cfg, params, fe, fd>>

(* loss(gt_segment_coords, gt_flag_diffs, gt_curve_latent, xs_mask, preds) *)
(* on ground truth padded to max_curves_num and predictions of the shapes  *)
(* the heads give                                                          *)
CallLoss ==
    \E b \in 1..MaxBatch, j \in 0..(FlagRowCount(cfg.max_curves_num) - 1), seed \in Seeds, pseed \in Seeds :
        /\ ret = Idle
        /\ LET n == cfg.max_curves_num
               xs == XsTensor(b, n, 30, seed)
               flag_diffs == FlagDiffsTensor(b, n, j, seed, cfg.max_col_diff, cfg.max_row_diff)
               shapes == [cls |-> << b, n >>, segments |-> << b, n, 6 >>, diffs |-> << b, n, cfg.max_col_diff + cfg.max_row_diff >>, curve_latent |-> << b, n, 12 >>]
           IN ret' = [ op    |-> "loss",
                       b     |-> b,
                       j     |-> j,
                       seed  |-> seed,
                       pseed |-> pseed,
                       preds |-> shapes,
                       out   |-> Loss(ae, Channels(xs, 0, 6), flag_diffs, Channels(xs, 6, 30), XsMask(flag_diffs), PredValues(pseed, shapes)) ]
        /\ UNCHANGED <<cfg, params, ae, fe, fd>>

(* forward(xs, flag_diffs, ...) on inputs padded to max_curves_num *)
CallForward ==
    \E b \in 1..MaxBatch, j \in 0..(FlagRowCount(cfg.max_curves_num) - 1), seed \in Seeds, sample_posterior \in BOOLEAN, return_dict \in BOOLEAN, return_loss \in BOOLEAN :
        /\ ret = Idle
        /\ LET n == cfg.max_curves_num
               xs == XsTensor(b, n, 30, seed)
               flag_diffs == FlagDiffsTensor(b, n, j, seed, cfg.max_col_diff, cfg.max_row_diff)
           IN ret' = [ op               |-> "forward",
                       b                |-> b,
                       j                |-> j,
                       seed             |-> seed,
                       sample_posterior |-> sample_posterior,
                       return_dict      |-> return_dict,
                       return_loss      |-> return_loss,
                       out |-> AutoencoderKLWireframe_forward(ae, params, xs, flag_diffs, sample_posterior, return_dict, "None", return_loss) ]
        /\ UNCHANGED <<cfg, params, ae, fe, fd>>

(* the caller drops the result of the last call *)
Return ==
    /\ ret # Idle
    /\ ret' = Idle
    /\ UNCHANGED <<cfg, params, ae, fe, fd>>

Next ==
    \/ CallEncode
    \/ CallDecode
    \/ CallLinearPredict
    \/ CallMlpPredict
    \/ CallFastEncode
    \/ CallFastDecode
    \/ CallLoss
    \/ CallForward
    \/ Return

Spec == Init /\ [][Next]_vars

---------------------------------------------------------------------------
(* Claims *)

(* The offsets of the last encode call index the encoder's own tables *)
OffsetsInEncoderTables(encoder, cols, rows) ==
    /\ cols \subseteq 0..(encoder.col_diff_embed.num_embeddings - 1)
    /\ rows \subseteq 0..(encoder.row_diff_embed.num_embeddings - 1)

(* C1: for every batch size B >= 1 and every padded length N with          *)
(* 1 <= N <= max_curves_num, encode succeeds and the posterior's mean and  *)
(* log-variance both have shape (B, latent_channels, wireframe_latent_num) *)
C1_EncodePosteriorShape ==
    (/\ ret.op = "encode"
     /\ ret.xs[3] = NumSegments + CurveLatentChannels
     /\ OffsetsInEncoderTables(ae.encoder, ret.cols, ret.rows))
        => LET want == << ret.xs[1], cfg.latent_channels, cfg.wireframe_latent_num >>
           IN ret.out.ok /\ ret.out.mean = want /\ ret.out.logvar = want

(* C2: for every configuration and every latent of shape                   *)
(* (B, latent_channels, wireframe_latent_num), decode succeeds and returns *)
(* shape (B, 1 + max_curves_num, attn_dim), and the decoder's positional   *)
(* bias, when present, has wireframe_latent_num rows                       *)
C2_DecodeShape ==
    ret.op = "decode"
        => /\ ret.out.ok
           /\ ret.out.shape = << ret.z[1], 1 + cfg.max_curves_num, cfg.attn_dim >>
           /\ (cfg.use_latent_pos_emb
                  => ae.decoder.pos_emb[1] = cfg.wireframe_latent_num)

(* C7: for every configured (max_col_diff, max_row_diff) the linear        *)
(* strategy's feature layer has width 6 + max_col_diff + max_row_diff + 12 *)
(* and linear_predict passes its three assertions and returns the shapes   *)
(* mlp_predict returns for the same configuration                          *)
C7_LinearPredictWidths ==
    (ret.op = "linear_predict" /\ ~cfg.use_mlp_predict)
        => /\ ae.heads.predict_features.out_features
                  = 6 + cfg.max_col_diff + cfg.max_row_diff + 12
           /\ ret.out.ok
           /\ ret.out = mlp_predict(PredictHeads(TRUE, cfg.attn_dim, cfg.max_curves_num,
                                                 cfg.max_col_diff, cfg.max_row_diff),
                                    ret.dec)

(* the inputs of the last loss or forward call, rebuilt from its record *)
LastXs == XsTensor(ret.b, cfg.max_curves_num, 30, ret.seed)

LastFlagDiffs == FlagDiffsTensor(ret.b, cfg.max_curves_num, ret.j, ret.seed, cfg.max_col_diff, cfg.max_row_diff)

Positions == { <<b, n>> : b \in 1..ret.b, n \in 1..cfg.max_curves_num }

Valid(b, n) == LastFlagDiffs[b][n][1] >= 1

(* a rank-3 tensor with the entries of position (b0, n0) from channel lo + 1 on set to 0 *)
ZeroedAt(x, b0, n0, lo) == [b \in 1..Len(x) |-> [n \in 1..Len(x[b]) |-> [c \in 1..Len(x[b][n]) |-> IF b = b0 /\ n = n0 /\ c > lo THEN 0 ELSE x[b][n][c]]]]

(* C3: zeroing the ground-truth coordinates, offsets and auxiliary latent  *)
(* of a position whose flag is <= 0.5, the predictions and the other       *)
(* positions held fixed, leaves segment_mse_loss, col_diff_ce_loss,        *)
(* row_diff_ce_loss and curve_latent_loss unchanged                        *)
C3_MaskingLaw ==
    (ret.op = "loss" /\ ret.out.ok)
        => \A p \in Positions :
              ~Valid(p[1], p[2])
                 => LET xs0 == ZeroedAt(LastXs, p[1], p[2], 0)
                        fd0 == ZeroedAt(LastFlagDiffs, p[1], p[2], 1)
                        l0 == Loss(ae, Channels(xs0, 0, 6), fd0, Channels(xs0, 6, 30), XsMask(LastFlagDiffs), PredValues(ret.pseed, ret.preds))
                    IN /\ l0.segment_mse_loss = ret.out.segment_mse_loss
                       /\ l0.col_diff_ce_loss = ret.out.col_diff_ce_loss
                       /\ l0.row_diff_ce_loss = ret.out.row_diff_ce_loss
                       /\ l0.curve_latent_loss = ret.out.curve_latent_loss

(* C3 witness: a loss over two items with a padded position whose ground   *)
(* truth coordinates, offsets and latent are not zero, and finite losses   *)
C3_Witness ==
    /\ ret.op = "loss"
    /\ ret.out.ok
    /\ ret.b = 2
    /\ ret.out.curve_latent_loss.k = "fin"
    /\ ret.out.curve_latent_loss.v > 0
    /\ \E p \in Positions :
          /\ ~Valid(p[1], p[2])
          /\ LastFlagDiffs[p[1]][p[2]][2] > 0
          /\ LastFlagDiffs[p[1]][p[2]][3] > 0
          /\ \E c \in 1..6 : LastXs[p[1]][p[2]][c] > 0
          /\ \E c \in 7..30 : LastXs[p[1]][p[2]][c] > 0

(* the number of valid segments of item b of the last call *)
ValidCount(b) == Cardinality({ n \in 1..cfg.max_curves_num : Valid(b, n) })

(* C5 as stated: for every batch item with exactly k valid segments        *)
(* (flag > 0.5), 1 <= k <= max_curves_num, the classification target is    *)
(* k - 1 and lies in [0, max_curves_num)                                   *)
C5_ClsTargetAnyFlags ==
    ret.op = "loss"
        => \A b \in 1..ret.b :
              ValidCount(b) >= 1
                 => /\ ret.out.cls[b] = ValidCount(b) - 1
                    /\ ret.out.cls[b] \in 0..(cfg.max_curves_num - 1)

(* C5 amended: when every flag of the item is 0 or 1, the classification   *)
(* target of an item with k >= 1 valid segments is k - 1 and lies in       *)
(* [0, max_curves_num)                                                     *)
C5_ClsTargetBitFlags ==
    ret.op = "loss"
        => \A b \in 1..ret.b :
              (ValidCount(b) >= 1 /\ \A n \in 1..cfg.max_curves_num : LastFlagDiffs[b][n][1] \in {0, 1})
                 => /\ ret.out.cls[b] = ValidCount(b) - 1
                    /\ ret.out.cls[b] \in 0..(cfg.max_curves_num - 1)

(* C5 witness: items with 2 and 3 valid segments get the targets 1 and 2 *)
C5_Witness ==
    /\ ret.op = "loss"
    /\ ret.b = 2
    /\ cfg.max_curves_num = 3
    /\ ValidCount(1) = 2
    /\ ValidCount(2) = 3
    /\ ret.out.cls = << 1, 2 >>

RECURSIVE SetSum(_, _)
(* the sum of f over the set S *)
SetSum(S, f) == IF S = {} THEN 0 ELSE LET x == CHOOSE y \in S : TRUE IN f[x] + SetSum(S \ {x}, f)

ValidPositions == { p \in Positions : Valid(p[1], p[2]) }

(* the squared errors of the six coordinates of one position, in thousandths *)
SquaredError(p) ==
    LET pred == PredValues(ret.pseed, ret.preds).segments[p[1]][p[2]]
        gt == LastXs[p[1]][p[2]]
    IN SetSum(1..6, [c \in 1..6 |-> 1000 * (pred[c] - gt[c]) * (pred[c] - gt[c])])

(* C6: the segment loss is the mean of the squared errors over exactly the *)
(* scalar elements at valid positions: its denominator is 6 times the      *)
(* number of positions with flag > 0.5 and no element of a padded position *)
(* enters the numerator                                                    *)
C6_SegmentLossDenominator ==
    (ret.op = "loss" /\ ret.out.ok)
        => /\ ret.out.segment_numel = 6 * Cardinality(ValidPositions)
           /\ ret.out.segment_mse_loss
                 = Mean(SetSum(ValidPositions, [p \in ValidPositions |-> SquaredError(p)]), 6 * Cardinality(ValidPositions))

(* C6 witness: flags [1,1,0] and [1,1,1] over max_curves_num = 3: 30       *)
(* elements enter the mean, not 2 * 3 * 6 = 36, and the loss is positive   *)
C6_Witness ==
    /\ ret.op = "loss"
    /\ ret.out.ok
    /\ ret.b = 2
    /\ cfg.max_curves_num = 3
    /\ ValidCount(1) = 2
    /\ ValidCount(2) = 3
    /\ ret.out.segment_numel = 30
    /\ ret.out.segment_mse_loss.k = "fin"
    /\ ret.out.segment_mse_loss.v > 0

(* C4: on the mode pathway (return_loss, not sample_posterior) the kl_loss *)
(* entry of the returned dict is exactly zero whatever the posterior's     *)
(* statistics are, non-finite ones included                                *)
C4_KlZeroOnModePath ==
    (ret.op = "forward" /\ ret.return_loss /\ ~ret.sample_posterior /\ ret.out.kind = "loss_pair")
        => ret.out.all_losses.kl_loss = Fin(0)

(* C8: forward returns the prediction bundle alone when return_loss is     *)
(* false and the pair (loss, dict of loss components) when return_loss is  *)
(* true, for both values of return_dict and of sample_posterior            *)
C8_ForwardReturnShape ==
    (ret.op = "forward" /\ ret.out.kind # "raise")
        => IF ret.return_loss
           THEN ret.out.kind = "loss_pair"
           ELSE ret.out.holds = "preds"

(* C9: AutoencoderKLWireframeFastDecode.forward returns the prediction     *)
(* bundle of the heads for either value of return_dict, never the raw      *)
(* decoder token tensor                                                    *)
C9_FastDecodeReturnsPreds ==
    (ret.op = "fast_decode" /\ ret.out.kind # "raise") => ret.out.holds = "preds"

---------------------------------------------------------------------------
(* The aggregate loss *)

(* weight * value for a weight in ten-thousandths and a value in           *)
(* thousandths, rounded down                                               *)
C11_Times(w, v) == w * (v \div 10000) + (w * (v % 10000)) \div 10000

C11_Components == { "cls_ce_loss", "segment_mse_loss", "col_diff_ce_loss", "row_diff_ce_loss", "curve_latent_loss", "kl_loss" }

(* C11: the aggregate loss forward returns is the sum of the six           *)
(* components stored unweighted under their names in the returned dict,    *)
(* each times its configured weight; the dict also holds mu and std, which *)
(* do not enter the aggregate                                              *)
C11_AggregateLoss ==
    (ret.op = "forward" /\ ret.out.kind = "loss_pair") =>
        LET d == ret.out.all_losses
        IN /\ DOMAIN d = C11_Components \cup { "mu", "std" }
           /\ IF \A c \in C11_Components : d[c].k = "fin"
              THEN ret.out.loss = Fin(C11_Times(cfg.cls_loss_weight, d.cls_ce_loss.v)
                                      + C11_Times(cfg.segment_loss_weight, d.segment_mse_loss.v)
                                      + C11_Times(cfg.col_diff_loss_weight, d.col_diff_ce_loss.v)
                                      + C11_Times(cfg.row_diff_loss_weight, d.row_diff_ce_loss.v)
                                      + C11_Times(cfg.curve_latent_loss_weight, d.curve_latent_loss.v)
                                      + C11_Times(cfg.kl_loss_weight, d.kl_loss.v))
              ELSE ret.out.loss.k # "fin"

(* C11 witness: a sampled forward whose six components are finite, whose   *)
(* KL term is positive and enters the aggregate scaled by its weight       *)
C11_Witness ==
    /\ ret.op = "forward"
    /\ ret.out.kind = "loss_pair"
    /\ ret.sample_posterior
    /\ \A c \in C11_Components : ret.out.all_losses[c].k = "fin"
    /\ ret.out.all_losses.kl_loss.v > 10000
    /\ ret.out.all_losses.segment_mse_loss.v > 0
    /\ ret.out.all_losses.mu.k = "fin"
    /\ ret.out.all_losses.mu.v > 0
    /\ ret.out.loss.k = "fin"

---------------------------------------------------------------------------
(* Shape contracts *)

(* the stages of encode that compute: embeddings, projections, attention *)
C12_ComputingStages == { "point_embed", "col_diff_embed", "row_diff_embed", "latent_embed", "pack", "attn_project_in", "pos_emb", "cross_attn", "project_out", "quant_proj" }

(* C12: encode called with an xs whose channel count is not the declared   *)
(* 6 + 12 raises, and raises before any embedding, projection or attention *)
(* is computed: the call does not get as far as one of those stages        *)
C12_ShapeContractFailsFast ==
    (ret.op = "encode" /\ ret.xs[3] # NumSegments + CurveLatentChannels)
        => (~ret.out.ok /\ ret.out.at \notin C12_ComputingStages)

---------------------------------------------------------------------------
(* The class weight buffers *)

(* C13: the buffers col_diff_class_weights and row_diff_class_weights have *)
(* max_col_diff and max_row_diff entries, every entry is strictly          *)
(* positive, and a second model constructed from the same configuration    *)
(* holds the same vectors                                                  *)
C13_OffsetWeightLaw ==
    /\ Len(ae.col_diff_class_weights) = cfg.max_col_diff
    /\ Len(ae.row_diff_class_weights) = cfg.max_row_diff
    /\ \A i \in 1..cfg.max_col_diff : ae.col_diff_class_weights[i] > 0
    /\ \A i \in 1..cfg.max_row_diff : ae.row_diff_class_weights[i] > 0
    /\ LET again == AutoencoderKLWireframe_init(cfg)
       IN /\ again.col_diff_class_weights = ae.col_diff_class_weights
          /\ again.row_diff_class_weights = ae.row_diff_class_weights

(* C13 witness: a model configured away from the defaults, with 4 column   *)
(* and 8 row classes, whose buffers run from exp(-1) up to exp(1)          *)
C13_Witness ==
    /\ cfg.max_col_diff = 4
    /\ cfg.max_row_diff = 8
    /\ Len(ae.col_diff_class_weights) = 4
    /\ Len(ae.row_diff_class_weights) = 8
    /\ ae.col_diff_class_weights[1] < 1000
    /\ ae.col_diff_class_weights[4] > 2000
    /\ ae.row_diff_class_weights[1] < ae.row_diff_class_weights[8]
    /\ ret.op = "loss"
    /\ ret.out.ok

---------------------------------------------------------------------------
(* What the calls leave alone *)

(* C14: no call changes the buffers col_diff_class_weights,                *)
(* row_diff_class_weights and col_weights, nor the selector                *)
(* use_mlp_predict, nor the selected loss function                         *)
C14_BuffersNeverMutated ==
    [][ /\ ae'.col_diff_class_weights = ae.col_diff_class_weights
        /\ ae'.row_diff_class_weights = ae.row_diff_class_weights
        /\ ae'.col_weights = ae.col_weights
        /\ ae'.use_mlp_predict = ae.use_mlp_predict
        /\ ae'.ce_loss = ae.ce_loss ]_vars

(* C14 witness: a loss over three segments has read the three buffers      *)
(* (both offset losses are positive) and they are as __init__ built them   *)
C14_Witness ==
    /\ ret.op = "loss"
    /\ ret.out.ok
    /\ cfg.max_curves_num = 3
    /\ ret.out.col_diff_ce_loss.k = "fin"
    /\ ret.out.col_diff_ce_loss.v > 0
    /\ ret.out.row_diff_ce_loss.k = "fin"
    /\ ret.out.row_diff_ce_loss.v > 0
    /\ ae.col_weights = ColWeights(3)
    /\ ae.col_diff_class_weights = ClassWeights(cfg.max_col_diff)
    /\ ae.row_diff_class_weights = ClassWeights(cfg.max_row_diff)

---------------------------------------------------------------------------
(* The offset tables of the owned encoders *)

(* C15: the encoders owned by AutoencoderKLWireframe and by                *)
(* AutoencoderKLWireframeFastEncode look the offsets up in tables that     *)
(* admit every col in [0, max_col_diff) and every row in [0, max_row_diff) *)
(* of the configuration, so an encode of such offsets does not fail in a   *)
(* lookup                                                                  *)
C15_OffsetsAreValidIndices ==
    (/\ ret.op = "encode"
     /\ ret.cols \subseteq 0..(cfg.max_col_diff - 1)
     /\ ret.rows \subseteq 0..(cfg.max_row_diff - 1))
        => /\ OffsetsInEncoderTables(ae.encoder, 0..(cfg.max_col_diff - 1), 0..(cfg.max_row_diff - 1))
           /\ OffsetsInEncoderTables(fe.encoder, 0..(cfg.max_col_diff - 1), 0..(cfg.max_row_diff - 1))
           /\ (~ret.out.ok => ret.out.at \notin { "col_diff_embed", "row_diff_embed" })

---------------------------------------------------------------------------
(* The spread half of the auxiliary latent *)

(* xs with one entry of the spread half changed: channel 19 of the first   *)
(* position of the first item takes the next of the values 0, 1, 2         *)
C16_OtherSpread(xs) == [xs EXCEPT ![1][1][19] = (@ + 1) % 3]

(* the last forward call made again on an xs that differs in the spread    *)
(* half only                                                               *)
C16_Other == AutoencoderKLWireframe_forward(ae, params, C16_OtherSpread(LastXs), LastFlagDiffs, ret.sample_posterior, ret.return_dict, "None", ret.return_loss)

(* C16: two forward calls that differ only in the spread channels of xs    *)
(* give the encoder the same input and return the same posterior           *)
(* statistics, the same predictions and the same cls, segment, column,     *)
(* row and KL components; only curve_latent_loss and the aggregate may     *)
(* differ                                                                  *)
C16_SpreadOnlyWeighsLatentLoss ==
    ret.op = "forward" =>
        \A other \in { C16_Other } :
            /\ Channels(C16_OtherSpread(LastXs), 0, 18) = Channels(LastXs, 0, 18)
            /\ other.kind = ret.out.kind
            /\ (ret.out.kind = "raise" => other.at = ret.out.at)
            /\ (ret.out.kind \in { "tuple", "preds" } => other.value = ret.out.value)
            /\ (ret.out.kind = "loss_pair" =>
                   \A c \in DOMAIN ret.out.all_losses \ { "curve_latent_loss" } :
                       other.all_losses[c] = ret.out.all_losses[c])

(* C16 witness: a forward with a loss for which the change of the spread   *)
(* changes the latent loss and the aggregate, and nothing else             *)
C16_Witness ==
    /\ ret.op = "forward"
    /\ ret.out.kind = "loss_pair"
    /\ C16_OtherSpread(LastXs) # LastXs
    /\ \E other \in { C16_Other } :
           /\ other.kind = "loss_pair"
           /\ other.all_losses.curve_latent_loss # ret.out.all_losses.curve_latent_loss
           /\ other.loss # ret.out.loss
           /\ other.all_losses.segment_mse_loss = ret.out.all_losses.segment_mse_loss
           /\ other.all_losses.mu = ret.out.all_losses.mu

=============================================================================
